---- MODULE Spec2Model ----
(***************************************************************************)
(* A model of the Fourier-series animation engine: FunctionRtoR            *)
(* (src/functions.py), FourierData, VerticalRescaler and Circles           *)
(* (src/animation/circles.py) and FourierAnimation                         *)
(* (src/animation/animation.py).                                           *)
(*                                                                         *)
(* Numbers.  All arithmetic is exact.  A complex number is an element of   *)
(* Z[zeta], zeta = exp(2*pi*i/12), written <<a, b, c, d>> for              *)
(* a + b*zeta + c*zeta^2 + d*zeta^3 (zeta^4 = zeta^2 - 1), over an integer *)
(* denominator; denominator 0 is numpy's nan.  Every angle of the model is *)
(* a multiple of 1/12 turn: sample counts divide 12 and time is measured   *)
(* in units of tau = 2*pi/12, so the transform's twiddle factors, the      *)
(* phasor rotations and the circle outlines are powers of zeta.            *)
(***************************************************************************)
EXTENDS Integers, Sequences, FiniteSets, TLC

\* ------------------------------------------------------------------------
\* Sizes.  The source samples 256 points and draws 50 points per circle;
\* the model keeps the same code with 4 samples and 4 points per circle.
\* ------------------------------------------------------------------------
\* FourierData.__init__: self.n = 256 (circles.py:145), scaled to 4.
InitialN == 4
\* Circles.__init__: self._pts_per_circle = 50 (circles.py:15), scaled to 4.
PtsPerCircle == 4
\* One period 2*pi in units of tau.
Turn == 12

\* Bounds of the model.
MaxCount == 5
MaxSteps == 3

\* A local name of the source: the value of the one-element set {e} of an
\* expression e, computed once.
Only(S) == CHOOSE v \in S : TRUE

\* ------------------------------------------------------------------------
\* Exact complex arithmetic in Z[zeta].
\* ------------------------------------------------------------------------
ZZero == <<0, 0, 0, 0>>
ZOne == <<1, 0, 0, 0>>
ZAdd(p, q) == <<p[1] + q[1], p[2] + q[2], p[3] + q[3], p[4] + q[4]>>
ZScale(k, p) == <<k * p[1], k * p[2], k * p[3], k * p[4]>>
\* p * zeta
ZTimesZeta(p) == <<0 - p[4], p[1], p[2] + p[4], p[3]>>
\* zeta^e, e in 0..11
ZUnit(e) ==
  LET base == <<ZOne, <<0, 1, 0, 0>>, <<0, 0, 1, 0>>, <<0, 0, 0, 1>>,
                <<-1, 0, 1, 0>>, <<0, -1, 0, 1>>>>
      r == e % 12
  IN IF r < 6 THEN base[r + 1] ELSE ZScale(-1, base[r - 6 + 1])
\* p * q
ZMul(p, q) ==
  LET p1 == ZTimesZeta(p)
      p2 == ZTimesZeta(p1)
      p3 == ZTimesZeta(p2)
  IN ZAdd(ZAdd(ZScale(q[1], p), ZScale(q[2], p1)),
          ZAdd(ZScale(q[3], p2), ZScale(q[4], p3)))
\* complex conjugate
ZConj(p) ==
  ZAdd(ZAdd(ZScale(p[1], ZOne), ZScale(p[2], <<0, 1, 0, -1>>)),
       ZAdd(ZScale(p[3], <<1, 0, -1, 0>>), ZScale(p[4], <<0, 0, 0, -1>>)))
\* Twice the real part, as <<u, v>> for u + v*sqrt(3).
ZRe2(p) == <<2 * p[1] + p[3], p[2]>>
\* Twice the imaginary part, as <<u, v>> for u + v*sqrt(3).
ZIm2(p) == <<p[2] + 2 * p[4], p[3]>>
\* u + v*sqrt(3) < 0
RLtZero(r) ==
  LET u == r[1]
      v == r[2]
  IN IF u >= 0 /\ v >= 0 THEN FALSE
     ELSE IF u <= 0 /\ v <= 0 THEN TRUE
     ELSE IF u < 0 THEN u * u > 3 * v * v
     ELSE 3 * v * v > u * u

RECURSIVE SumZ(_, _)
SumZ(s, k) == IF k = 0 THEN ZZero ELSE ZAdd(SumZ(s, k - 1), s[k])

RECURSIVE SeqMin(_, _)
SeqMin(s, k) ==
  IF k = 1 THEN s[1]
  ELSE LET m == SeqMin(s, k - 1) IN IF s[k] < m THEN s[k] ELSE m
RECURSIVE SeqMax(_, _)
SeqMax(s, k) ==
  IF k = 1 THEN s[1]
  ELSE LET m == SeqMax(s, k - 1) IN IF s[k] > m THEN s[k] ELSE m

\* A complex value over a denominator; d = 0 is nan.
Val(z, d) == [z |-> IF d = 0 THEN ZZero ELSE z, d |-> d]
\* adding an exact zero leaves the other operand as it is
VAdd(p, q) ==
  IF p.d = q.d THEN Val(ZAdd(p.z, q.z), p.d)
  ELSE IF q.d # 0 /\ q.z = ZZero /\ p.d # 0 THEN p
  ELSE IF p.d # 0 /\ p.z = ZZero /\ q.d # 0 THEN q
  ELSE Val(ZAdd(ZScale(q.d, p.z), ZScale(p.d, q.z)), p.d * q.d)
VMul(p, u) == Val(ZMul(p.z, u), p.d)
\* two values denote the same number (nan equals nothing)
VSame(p, q) == p.d # 0 /\ q.d # 0 /\ ZScale(q.d, p.z) = ZScale(p.d, q.z)

\* ------------------------------------------------------------------------
\* functions.py: FunctionRtoR.
\*
\* A function text is what the user types.  parse_expr, lambdify and numpy
\* are outside the repository; the model describes a text by what they make
\* of it: its free symbols in the order of
\* list(free_symbols), the symbols multiplies_var finds to multiply a
\* sub-expression containing t, and the waveform the lambdified callable
\* computes.  Sample values are integers (1 is the top of the plot range)
\* and time is an integer number of tau.
\* ------------------------------------------------------------------------
TxtInit == [name |-> "a*sin(10*k*(t - phi))", free |-> <<"a", "k", "t", "phi">>,
            scale |-> {"a", "k"}, wave |-> "sin10"]
TxtSquare == [name |-> "sign(sin(t))", free |-> <<"t">>,
              scale |-> {}, wave |-> "square"]
TxtShift == [name |-> "sign(sin(k*t)) + c", free |-> <<"k", "t", "c">>,
             scale |-> {"k"}, wave |-> "shift"]
TxtCos == [name |-> "cos(6*t)", free |-> <<"t">>,
           scale |-> {}, wave |-> "cos6"]
TxtUndef == [name |-> "foo(t)", free |-> <<"t">>,
             scale |-> {}, wave |-> "undefined"]
TxtNoT == [name |-> "5*x", free |-> <<"x">>,
           scale |-> {}, wave |-> "none"]

\* the texts a user submits
Texts == {TxtSquare, TxtShift, TxtCos, TxtUndef, TxtNoT}
\* the values a parameter slider takes
ArgVals == {1, 2}

\* A positional argument: a number, or (when a dict is unpacked with *)
\* a sympy symbol.
Num(v) == [sym |-> FALSE, v |-> v, s |-> ""]
Sym(s) == [sym |-> TRUE, v |-> 0, s |-> s]

\* sign(sin(u)) at u*tau
Sq(u) == LET r == u % Turn
         IN IF r = 0 \/ r = 6 THEN 0 ELSE IF r < 6 THEN 1 ELSE -1

\* The lambdified callable at one sample time m with numeric arguments:
\* the exact real value (rounding is not modelled).
Wave(w, m, args) ==
  CASE w = "square" -> Sq(m)
    [] w = "shift" -> Sq(args[1].v * m) + args[2].v
    [] w = "cos6" -> IF m % 2 = 0 THEN 1 ELSE -1
    \* sin(10*k*(t - phi)) is 0 at every multiple of pi/2, 3 tau
    [] w = "sin10" -> 0
    [] OTHER -> 0

RECURSIVE RemoveFirst(_, _)
RemoveFirst(s, e) ==
  IF s = <<>> THEN <<>>
  ELSE IF Head(s) = e THEN Tail(s)
  ELSE <<Head(s)>> \o RemoveFirst(Tail(s), e)

NoFunction == [name |-> "", parameters |-> <<>>, symbols |-> <<>>,
               scale |-> {}, wave |-> "none"]

\* A variant that does not look for param among the free symbols.
FunctionRtoR_unchecked(text, param) ==
  LET symbol_list == RemoveFirst(text.free, param)
  IN [exc |-> "none",
      fn |-> [name |-> text.name,
              parameters |-> symbol_list,
              symbols |-> <<param>> \o symbol_list,
              scale |-> text.scale,
              wave |-> text.wave]]

\* FunctionRtoR.__init__(function_name, param): [exc, fn]
FunctionRtoR(text, param) ==
  IF \A i \in 1..Len(text.free) : text.free[i] # param
  THEN [exc |-> "VariableNotFoundError", fn |-> NoFunction]
  ELSE LET symbol_list == RemoveFirst(text.free, param)
       IN [exc |-> "none",
           fn |-> [name |-> text.name,
                   parameters |-> symbol_list,
                   symbols |-> <<param>> \o symbol_list,
                   scale |-> text.scale,
                   wave |-> text.wave]]

\* FunctionRtoR.get_default_values: the dict, as its items in insertion order
get_default_values(fn) ==
  [i \in 1..Len(fn.parameters) |->
     [key |-> fn.parameters[i],
      value |-> IF fn.parameters[i] \in fn.scale THEN 1 ELSE 0]]
\* (kwargs[s] for s in kwargs): the dict's values
DictValues(kwargs) == [i \in 1..Len(kwargs) |-> Num(kwargs[i].value)]
\* *kwargs: unpacking a dict yields its keys
DictKeys(kwargs) == [i \in 1..Len(kwargs) |-> Sym(kwargs[i].key)]

\* A variant that hands the arguments over in reverse order.
ActualArgs_reversed(fn, args) ==
  LET given == IF args = <<>> THEN DictValues(get_default_values(fn))
               ELSE args
  IN [i \in 1..Len(given) |-> given[Len(given) + 1 - i]]

\* FunctionRtoR.__call__: the arguments the lambdified callable receives
ActualArgs(fn, args) ==
  IF args = <<>> THEN DictValues(get_default_values(fn)) ELSE args

\* FunctionRtoR.__call__(x, *args): [exc, y]
Call(fn, x, args) ==
  LET actual == ActualArgs(fn, args)
  IN IF Len(actual) # Len(fn.parameters)
     THEN [exc |-> "TypeError", y |-> <<>>]
     ELSE IF fn.wave = "undefined"
     THEN [exc |-> "NameError", y |-> <<>>]
     ELSE IF \E i \in 1..Len(actual) : actual[i].sym
     THEN [exc |-> "TypeError", y |-> <<>>]
     ELSE [exc |-> "none",
           y |-> [k \in 1..Len(x) |-> Wave(fn.wave, x[k], actual)]]

\* ------------------------------------------------------------------------
\* circles.py: VerticalRescaler.
\* ------------------------------------------------------------------------
\* VerticalRescaler.__init__
VerticalRescaler ==
  [y_min |-> -1, y_max |-> 1, y_diff |-> 2,
   plot_range |-> <<-1, 1>>, plot_range_diff |-> 2]

\* VerticalRescaler.set_scale_values(y_arr, plot_range)
set_scale_values(rs, y_arr, plot_range) ==
  LET lo == SeqMin(y_arr, Len(y_arr))
      hi == SeqMax(y_arr, Len(y_arr))
  IN [y_min |-> lo, y_max |-> hi, y_diff |-> hi - lo,
      plot_range |-> plot_range,
      plot_range_diff |-> plot_range[2] - plot_range[1]]

\* A variant that takes a signal touching an end of the plot range as out
\* of bounds.
in_bounds_strict(rs) ==
  /\ rs.plot_range[1] < rs.y_min /\ rs.y_min < rs.plot_range[2]
  /\ rs.plot_range[1] < rs.y_max /\ rs.y_max < rs.plot_range[2]

\* VerticalRescaler.in_bounds
in_bounds(rs) ==
  /\ rs.plot_range[1] <= rs.y_min /\ rs.y_min <= rs.plot_range[2]
  /\ rs.plot_range[1] <= rs.y_max /\ rs.y_max <= rs.plot_range[2]

\* A real array: integer numerators over one denominator (0: all nan).
Samples(num, den) ==
  [num |-> IF den = 0 THEN [k \in 1..Len(num) |-> 0] ELSE num, den |-> den]

\* VerticalRescaler.__call__(y_arr):
\* plot_range_diff*((y - y_min)/y_diff) + plot_range[0]; a zero y_diff
\* divides 0.0 by 0.0, which numpy answers with nan.
Rescale(rs, y_arr) ==
  Samples([k \in 1..Len(y_arr) |->
             rs.plot_range_diff * (y_arr[k] - rs.y_min)
               + rs.plot_range[1] * rs.y_diff],
          rs.y_diff)

\* ------------------------------------------------------------------------
\* numpy: linspace, fft.rfftfreq, argsort, fft.rfft.
\* ------------------------------------------------------------------------
\* np.linspace(start, start + period*(1 - 1/n), n), n >= 1: step period/n
\* (n divides the period in the model)
Linspace(start, period, n) ==
  [k \in 1..n |-> start + ((k - 1) * period) \div n]

\* np.fft.rfftfreq(n): j/n for j = 0..n//2, each as <<j, n>>
Rfftfreq(n) == [j \in 1..(n \div 2 + 1) |-> <<j - 1, n>>]

\* p < q for fractions <<num, den>> with positive denominators
FracLess(p, q) == p[1] * q[2] < q[1] * p[2]

\* np.argsort(f): the indices (from 1) that put f in ascending order
Argsort(f) ==
  CHOOSE p \in [1..Len(f) -> 1..Len(f)] :
    /\ \A i, j \in 1..Len(f) : i # j => p[i] # p[j]
    /\ \A i \in 1..(Len(f) - 1) : ~FracLess(f[p[i + 1]], f[p[i]])

\* np.fft.rfft(x): X[j] = sum_k x[k]*exp(-2*pi*i*j*k/n), j = 0..n//2
Rfft(x) ==
  LET n == Len(x.num)
      term(j, k) == ZScale(x.num[k + 1], ZUnit(0 - (Turn \div n) * j * k))
      bin(j) == SumZ([k \in 1..n |-> term(j, k - 1)], n)
  IN [num |-> [j \in 1..(n \div 2 + 1) |->
                 IF x.den = 0 THEN ZZero ELSE bin(j - 1)],
      den |-> x.den]

\* p/2 for a doubled numerator
ZHalf(p) == <<p[1] \div 2, p[2] \div 2, p[3] \div 2, p[4] \div 2>>

\* ------------------------------------------------------------------------
\* circles.py: FourierData.  Every method is an operator from the object
\* (a record of its attributes) to [d, exc]: the object as the method
\* leaves it and the exception it raised ("none" when it returned).
\* ------------------------------------------------------------------------
\* FourierData._update_data(t, *args)
update_data(d, t, args) ==
  LET r == Call(d.function, t, args)
  IN IF r.exc # "none" THEN [d |-> d, exc |-> r.exc]
     ELSE
       LET rs == set_scale_values(d.rescale, r.y, d.y_limits)
           x == IF in_bounds(rs) THEN Samples(r.y, 1) ELSE Rescale(rs, r.y)
           orig == Rfft(x)
           a2 == [num |-> [j \in 1..Len(orig.num) |-> ZScale(2, orig.num[j])],
                  den |-> x.den * d.n]
           d1 == [d EXCEPT !.x = x, !.rescale = rs, !.orig = orig, !.a = a2]
       IN IF Len(a2.num) > Len(d.sort_arr)
          THEN [d |-> d1, exc |-> "IndexError"]
          ELSE
            LET sorted == [j \in 1..Len(a2.num) |-> a2.num[d.sort_arr[j]]]
                halved == [sorted EXCEPT ![1] = ZHalf(sorted[1])]
            IN [d |-> [d1 EXCEPT !.a = [num |-> halved, den |-> a2.den]],
                exc |-> "none"]

\* FourierData.set_params(*args)
Data_set_params(d, args) == update_data(d, d.t, args)

\* FourierData.set_number_of_points(n)
Data_set_number_of_points(d, n) ==
  LET d1 == [d EXCEPT !.n = n]
  IN IF n = 0 THEN [d |-> d1, exc |-> "ZeroDivisionError"]
     ELSE IF n < 0 THEN [d |-> d1, exc |-> "ValueError"]
     ELSE LET t == Linspace(d.t[1], d.period, n)
          IN update_data([d1 EXCEPT !.t = t], t,
                         DictKeys(get_default_values(d.function)))

\* FourierData.set_period(start, period)
Data_set_period(d, start, period) ==
  LET d1 == [d EXCEPT !.period = period]
  IN IF d.n = 0 THEN [d |-> d1, exc |-> "ZeroDivisionError"]
     ELSE IF d.n < 0 THEN [d |-> d1, exc |-> "ValueError"]
     ELSE LET t == Linspace(start, period, d.n)
          IN update_data([d1 EXCEPT !.t = t], t,
                         DictKeys(get_default_values(d.function)))

\* FourierData.set_function(function)
Data_set_function(d, function) ==
  update_data([d EXCEPT !.function = function], d.t,
              DictValues(get_default_values(function)))

\* FourierData.__init__
FourierData ==
  LET period == Turn
      function == FunctionRtoR(TxtInit, "t").fn
      f0 == Rfftfreq(InitialN)
      sort_arr == Argsort(f0)
      d0 == [period |-> period,
             function |-> function,
             n |-> InitialN,
             y_limits |-> <<-1, 1>>,
             t |-> Linspace(0 - period \div 2, period, InitialN),
             f |-> [i \in 1..Len(f0) |-> f0[sort_arr[i]]],
             sort_arr |-> sort_arr,
             x |-> Samples(<<>>, 1),
             a |-> [num |-> <<>>, den |-> 1],
             orig |-> [num |-> <<>>, den |-> 1],
             rescale |-> VerticalRescaler]
  IN update_data(d0, d0.t, DictValues(get_default_values(function))).d

\* ------------------------------------------------------------------------
\* circles.py: Circles.  The vertex/circle buffer _circles is a sequence of
\* complex values; buffer index k of the source is element k + 1 here.
\* ------------------------------------------------------------------------
\* Circles.__init__: np.zeros([(pts_per_circle + 1)*resolution])
ZeroBuffer(resolution) ==
  [k \in 1..((PtsPerCircle + 1) * resolution) |-> Val(ZZero, 1)]

\* Circles.__init__: _gen_circle[m] = exp(2j*pi*(m + 1)/pts_per_circle)
gen_circle(m) == ZUnit((Turn \div PtsPerCircle) * (m + 1))

\* Circles.__init__: _EPSILON = (max(ydata) - min(ydata))/10 of the plot of
\* the zero buffer
EPSILON ==
  LET ydata == [k \in 1..((PtsPerCircle + 1) * (InitialN \div 2 + 1)) |-> 0]
  IN (SeqMax(ydata, Len(ydata)) - SeqMin(ydata, Len(ydata))) \div 10

\* exp(-2*pi*i*1j*f) for a frequency f = <<num, den>> in cycles per sample
Rotation(i, f) == ZUnit((0 - Turn * i * f[1]) \div f[2])

\* np.real(amp*np.conj(amp)) < self._EPSILON (false for nan)
BelowEpsilon(amp) ==
  LET sq == ZRe2(ZMul(amp.z, ZConj(amp.z)))
  IN amp.d # 0 /\ RLtZero(<<sq[1] - 2 * amp.d * amp.d * EPSILON, sq[2]>>)

\* Circles._draw_circle(centre, amp, k)
draw_circle(circles, centre, amp, k) ==
  IF BelowEpsilon(amp)
  THEN [q \in 1..Len(circles) |->
          IF q - 1 >= k + 1 /\ q - 1 <= k + PtsPerCircle
          THEN VAdd(centre, amp) ELSE circles[q]]
  ELSE [q \in 1..Len(circles) |->
          IF q - 1 >= k + 1 /\ q - 1 <= k + PtsPerCircle
          THEN VAdd(centre, VMul(amp, gen_circle(q - 1 - k - 1)))
          ELSE circles[q]]

\* A variant that turns each harmonic j >= 1 by the phase
\* +2*pi*i*frequency[j].
harmonic_turned_forward(circles, d, i, j) ==
  IF j = 0
  THEN LET a0 == Val(d.a.num[1], d.a.den)
       IN [circles |->
             [q \in 1..Len(circles) |->
                IF q = 1 THEN VMul(a0, Rotation(i, d.f[1]))
                ELSE IF q - 1 <= PtsPerCircle THEN VMul(a0, ZUnit(0))
                ELSE circles[q]],
           exc |-> "none"]
  ELSE LET k == j * (PtsPerCircle + 1)
       IN IF j >= Len(d.f) \/ j >= Len(d.a.num) \/ k >= Len(circles)
          THEN [circles |-> circles, exc |-> "IndexError"]
          ELSE LET amplitude ==
                     VMul(Val(d.a.num[j + 1], d.a.den),
                          ZUnit((Turn * i * d.f[j + 1][1]) \div d.f[j + 1][2]))
                   c1 == [circles EXCEPT
                            ![k + 1] = VAdd(amplitude, circles[k])]
               IN [circles |-> draw_circle(c1, c1[k], amplitude, k),
                   exc |-> "none"]

\* One pass of the loop "for j in range(self.resolution)" of update_plots:
\* [circles, exc]
harmonic(circles, d, i, j) ==
  IF j = 0
  THEN LET a0 == Val(d.a.num[1], d.a.den)
       IN [circles |->
             [q \in 1..Len(circles) |->
                IF q = 1 THEN VMul(a0, Rotation(i, d.f[1]))
                ELSE IF q - 1 <= PtsPerCircle THEN VMul(a0, ZUnit(0))
                ELSE circles[q]],
           exc |-> "none"]
  ELSE LET k == j * (PtsPerCircle + 1)
       IN IF j >= Len(d.f) \/ j >= Len(d.a.num) \/ k >= Len(circles)
          THEN [circles |-> circles, exc |-> "IndexError"]
          ELSE LET amplitude == VMul(Val(d.a.num[j + 1], d.a.den),
                                     Rotation(i, d.f[j + 1]))
                   c1 == [circles EXCEPT
                            ![k + 1] = VAdd(amplitude, circles[k])]
               IN [circles |-> draw_circle(c1, c1[k], amplitude, k),
                   exc |-> "none"]

RECURSIVE harmonics(_, _, _, _)
\* the loop over j = 0..upto-1, stopping at the first exception
harmonics(circles, d, i, upto) ==
  IF upto = 0 THEN [circles |-> circles, exc |-> "none"]
  ELSE Only({IF before.exc # "none" THEN before
             ELSE harmonic(before.circles, d, i, upto - 1)
               : before \in {harmonics(circles, d, i, upto - 1)}})

\* A variant that leaves the buffer beyond the last drawn harmonic as it was.
update_plots_no_fill(circles, d, resolution, i) ==
  harmonics(circles, d, i, resolution)

\* A variant that chains the harmonics from the highest drawn frequency
\* down to the lowest.
update_plots_descending(circles, d, resolution, i) ==
  LET top == IF resolution <= Len(d.f) /\ resolution <= Len(d.a.num)
             THEN resolution ELSE 0
      turned == [d EXCEPT
                   !.f = [j \in 1..Len(d.f) |->
                            IF j <= top THEN d.f[top + 1 - j] ELSE d.f[j]],
                   !.a = [num |-> [j \in 1..Len(d.a.num) |->
                                     IF j <= top THEN d.a.num[top + 1 - j]
                                     ELSE d.a.num[j]],
                          den |-> d.a.den]]
      stop_index == resolution * (PtsPerCircle + 1) - 1
  IN Only({IF drawn.exc # "none" THEN drawn
           ELSE [circles |->
                   [q \in 1..Len(circles) |->
                      IF q - 1 >= stop_index
                      THEN drawn.circles[stop_index + 1]
                      ELSE drawn.circles[q]],
                 exc |-> "none"]
             : drawn \in {harmonics(circles, turned, i, resolution)}})

\* A variant that fills the buffer beyond the last drawn harmonic with the
\* first vertex of the chain.
update_plots_fill_first(circles, d, resolution, i) ==
  LET stop_index == resolution * (PtsPerCircle + 1) - 1
  IN Only({IF drawn.exc # "none" THEN drawn
           ELSE [circles |->
                   [q \in 1..Len(circles) |->
                      IF q - 1 >= stop_index
                      THEN drawn.circles[1]
                      ELSE drawn.circles[q]],
                 exc |-> "none"]
             : drawn \in {harmonics(circles, d, i, resolution)}})

\* Circles.update_plots(i): [circles, exc]
update_plots(circles, d, resolution, i) ==
  LET stop_index == resolution * (PtsPerCircle + 1) - 1
  IN Only({IF drawn.exc # "none" THEN drawn
           ELSE [circles |->
                   [q \in 1..Len(circles) |->
                      IF q - 1 >= stop_index
                      THEN drawn.circles[stop_index + 1]
                      ELSE drawn.circles[q]],
                 exc |-> "none"]
             : drawn \in {harmonics(circles, d, i, resolution)}})

\* Circles.get_end_point
get_end_point(circles) == circles[Len(circles)]

\* A variant that refuses the largest resolution, n//2 + 1.
set_number_of_circles_below(d, current, resolution) ==
  IF (d.n \div 2 + 1) > resolution /\ resolution > 0
  THEN resolution ELSE current

\* Circles.set_number_of_circles(resolution): the new resolution
set_number_of_circles(d, current, resolution) ==
  IF (d.n \div 2 + 1) >= resolution /\ resolution > 0
  THEN resolution ELSE current

\* Circles.get_amplitudes: [amps, exc]; amps is the copy, one value per bin
get_amplitudes(d, resolution) ==
  LET amps == d.orig
      hi == d.n \div 2 + 1
  IN IF resolution < hi /\ hi > Len(amps.num)
     THEN [amps |-> <<>>, exc |-> "IndexError"]
     ELSE [amps |-> [j \in 1..Len(amps.num) |->
                       IF j - 1 >= resolution /\ j - 1 < hi
                       THEN Val(ZZero, 1)
                       ELSE Val(amps.num[j], amps.den)],
           exc |-> "none"]

\* ------------------------------------------------------------------------
\* numpy: roll, fft.irfft.
\* ------------------------------------------------------------------------
\* np.roll(arr, shift): out[(k + shift) mod n] = arr[k]
Roll(arr, shift) ==
  IF Len(arr) = 0 THEN arr
  ELSE [k \in 1..Len(arr) |-> arr[((k - 1 - shift) % Len(arr)) + 1]]

RECURSIVE SumV(_, _)
SumV(s, k) == IF k = 0 THEN Val(ZZero, 1) ELSE VAdd(SumV(s, k - 1), s[k])

\* np.fft.irfft(amps), m = len(amps) >= 2, n = 2*(m - 1):
\* out[k] = Re(A[0] + 2*sum_{0<j<m-1} A[j]*w^(j*k) + A[m-1]*(-1)^k)/n,
\* w = exp(2*pi*i/n).  A real value is [r, d]: (r[1] + r[2]*sqrt(3))/d.
Irfft(amps) ==
  LET m == Len(amps)
      n == 2 * (m - 1)
      term(j, k) ==
        LET w == ZUnit((Turn \div n) * j * k)
        IN IF j = 0 \/ j = m - 1 THEN VMul(amps[j + 1], w)
           ELSE VMul(amps[j + 1], ZScale(2, w))
      total(k) == SumV([j \in 1..m |-> term(j - 1, k)], m)
  IN [k \in 1..n |->
        [r |-> ZRe2(total(k - 1).z), d |-> 2 * n * total(k - 1).d]]

\* ------------------------------------------------------------------------
\* animation.py: FourierAnimation.  A method is an operator from the whole
\* object s (the animation's attributes, its Circles' resolution and
\* buffer, and the Circles' FourierData) to [s, exc].
\* ------------------------------------------------------------------------
\* FourierAnimation.__init__: self.t = np.linspace(-pi, pi - 2*pi/256, 256)
AnimationT == Linspace(0 - Turn \div 2, Turn, InitialN)

RealZero == [r |-> <<0, 0>>, d |-> 1]

\* Circles.set_function / set_params / set_number_of_points / set_period:
\* delegate to FourierData
Circles_set_function(s, function) ==
  LET r == Data_set_function(s.data, function)
  IN [s |-> [s EXCEPT !.data = r.d], exc |-> r.exc]
Circles_set_params(s, args) ==
  LET r == Data_set_params(s.data, args)
  IN [s |-> [s EXCEPT !.data = r.d], exc |-> r.exc]
\* A variant that also fits the resolution and the buffer to the new n.
Circles_set_number_of_points_fitted(s, n) ==
  LET r == Data_set_number_of_points(s.data, n)
  IN [s |-> [s EXCEPT !.data = r.d,
                      !.resolution = n \div 2 + 1,
                      !.circles = ZeroBuffer(n \div 2 + 1)],
      exc |-> r.exc]
Circles_set_number_of_points(s, n) ==
  LET r == Data_set_number_of_points(s.data, n)
  IN [s |-> [s EXCEPT !.data = r.d], exc |-> r.exc]
Circles_set_period(s, start, period) ==
  LET r == Data_set_period(s.data, start, period)
  IN [s |-> [s EXCEPT !.data = r.d], exc |-> r.exc]

\* FourierAnimation._set_x2
set_x2(s) ==
  Only({IF g.exc # "none" THEN [s |-> s, exc |-> g.exc]
        ELSE IF Len(g.amps) < 2 THEN [s |-> s, exc |-> "ValueError"]
        ELSE Only({[s |-> [s EXCEPT !.x2 = Roll(y, s.counts)],
                    exc |-> "none"] : y \in {Irfft(g.amps)}})
          : g \in {get_amplitudes(s.data, s.resolution)}})

\* FourierAnimation._set_x(*params)
set_x(s, params) ==
  Only({IF r.exc # "none" THEN [s |-> s, exc |-> r.exc]
        ELSE LET rs == set_scale_values(s.rescale, r.y, s.y_limits)
                 y == IF in_bounds(rs) THEN Samples(r.y, 1)
                      ELSE Rescale(rs, r.y)
                 x == [num |-> Roll(y.num, s.counts), den |-> y.den]
             IN Only({set_x2(s1)
                        : s1 \in {[s EXCEPT !.rescale = rs, !.x = x]}})
          : r \in {Call(s.function, AnimationT, params)}})

\* FourierAnimation.set_function(function_name)
Animation_set_function(s, function_name) ==
  Only({IF made.exc # "none" THEN [s |-> s, exc |-> made.exc]
        ELSE Only({IF r.exc # "none" THEN r ELSE set_x(r.s, <<>>)
                     : r \in {Circles_set_function(
                                [s EXCEPT !.function = made.fn,
                                          !.function_display = made.fn.name],
                                made.fn)}})
          : made \in {FunctionRtoR(function_name, "t")}})

\* FourierAnimation.set_number_of_circles(resolution)
Animation_set_number_of_circles(s, resolution) ==
  Only({set_x2([s EXCEPT !.resolution = r])
          : r \in {set_number_of_circles(s.data, s.resolution, resolution)}})

\* FourierAnimation.set_params(*args)
Animation_set_params(s, args) ==
  Only({IF r.exc # "none" THEN r ELSE set_x(r.s, args)
          : r \in {Circles_set_params(s, args)}})

\* FourierAnimation.set_speed(speed)
Animation_set_speed(s, speed) ==
  [s |-> [s EXCEPT !.increment = speed], exc |-> "none"]

\* A variant whose counter wraps around at the sample count.
Animation_update_wrapping(s, delta_t) ==
  Only({IF u.exc # "none"
        THEN [s |-> [s EXCEPT !.counts = (s.counts + s.increment) % InitialN,
                              !.circles = u.circles],
              exc |-> u.exc]
        ELSE Only({[s |-> [s EXCEPT
                             !.counts = (s.counts + s.increment) % InitialN,
                             !.circles = u.circles,
                             !.v_line = [x1 |-> [r |-> ZIm2(end_point.z),
                                                 d |-> 2 * end_point.d],
                                         y |-> [r |-> ZRe2(end_point.z),
                                                d |-> 2 * end_point.d]],
                             !.x = [num |-> Roll(s.x.num, s.increment),
                                    den |-> s.x.den],
                             !.x2 = Roll(s.x2, s.increment)],
                    exc |-> "none"]
                     : end_point \in {get_end_point(u.circles)}})
          : u \in {update_plots(s.circles, s.data, s.resolution,
                                (s.counts + s.increment) % InitialN)}})

\* A variant that advances the counter by the increment times the elapsed
\* time handed to it.
Animation_update_timed(s, delta_t) ==
  Only({IF u.exc # "none"
        THEN [s |-> [s EXCEPT !.counts = s.counts + s.increment * delta_t,
                              !.circles = u.circles],
              exc |-> u.exc]
        ELSE Only({[s |-> [s EXCEPT
                             !.counts = s.counts + s.increment * delta_t,
                             !.circles = u.circles,
                             !.v_line = [x1 |-> [r |-> ZIm2(end_point.z),
                                                 d |-> 2 * end_point.d],
                                         y |-> [r |-> ZRe2(end_point.z),
                                                d |-> 2 * end_point.d]],
                             !.x = [num |-> Roll(s.x.num, s.increment),
                                    den |-> s.x.den],
                             !.x2 = Roll(s.x2, s.increment)],
                    exc |-> "none"]
                     : end_point \in {get_end_point(u.circles)}})
          : u \in {update_plots(s.circles, s.data, s.resolution,
                                s.counts + s.increment * delta_t)}})

\* FourierAnimation.update(delta_t)
Animation_update(s, delta_t) ==
  Only({IF u.exc # "none"
        THEN [s |-> [s EXCEPT !.counts = s.counts + s.increment,
                              !.circles = u.circles],
              exc |-> u.exc]
        ELSE Only({[s |-> [s EXCEPT
                             !.counts = s.counts + s.increment,
                             !.circles = u.circles,
                             !.v_line = [x1 |-> [r |-> ZIm2(end_point.z),
                                                 d |-> 2 * end_point.d],
                                         y |-> [r |-> ZRe2(end_point.z),
                                                d |-> 2 * end_point.d]],
                             !.x = [num |-> Roll(s.x.num, s.increment),
                                    den |-> s.x.den],
                             !.x2 = Roll(s.x2, s.increment)],
                    exc |-> "none"]
                     : end_point \in {get_end_point(u.circles)}})
          : u \in {update_plots(s.circles, s.data, s.resolution,
                                s.counts + s.increment)}})

\* ------------------------------------------------------------------------
\* animator.py: Animator.  Times are whole multiples of 1/60 s, and
\* perf_counter() is 0 when the object is constructed.
\* ------------------------------------------------------------------------
\* Animator.__init__: self._delta_t = 1.0/60.0
InitialDeltaT == 1

\* The drawables are named by the attribute that holds them.  The artists
\* among the attributes of self.__dict__, in the order FourierAnimation.__init__
\* assigns them, with their classes
Attributes ==
  <<[name |-> "function_display", kind |-> "Text"],
    [name |-> "v_line", kind |-> "Line2D"],
    [name |-> "function_plot", kind |-> "Line2D"],
    [name |-> "circle_function_plot", kind |-> "Line2D"]>>

\* e in seq
Member(e, seq) == \E k \in 1..Len(seq) : seq[k] = e

RECURSIVE add_plots_from(_, _, _)
\* the loop "for key in self_dict" of _add_plots from attribute k on, and
\* the extend that follows it
add_plots_from(k, plots, text_objects) ==
  IF k > Len(Attributes) THEN plots \o text_objects
  ELSE IF Member(Attributes[k].name, plots)
  THEN add_plots_from(k + 1, plots, text_objects)
  ELSE IF Attributes[k].kind = "Text"
  THEN add_plots_from(k + 1, plots, Append(text_objects, Attributes[k].name))
  ELSE add_plots_from(k + 1, Append(plots, Attributes[k].name), text_objects)

\* A variant that does not look whether _plots already holds the drawable.
Animator_add_plots_again(plots) ==
  plots
    \o SelectSeq([k \in 1..Len(Attributes) |-> Attributes[k].name],
                 LAMBDA name : name # "function_display")
    \o SelectSeq([k \in 1..Len(Attributes) |-> Attributes[k].name],
                 LAMBDA name : name = "function_display")

\* A variant that finds the Text objects only.
Animator_add_plots_texts(plots) ==
  plots \o SelectSeq([k \in 1..Len(Attributes) |-> Attributes[k].name],
                     LAMBDA name : name = "function_display"
                                   /\ ~Member(name, plots))

\* Animator._add_plots: the new _plots
Animator_add_plots(plots) == add_plots_from(1, plots, <<>>)

\* Animator.animation_loop
animation_loop(s) ==
  [s EXCEPT !.plots = Animator_add_plots(s.plots),
            !.main_animation = "FuncAnimation"]

\* what the drawable shows once update has set its data
Shown(s, name) ==
  CASE name = "circles._plot" -> s.circles
    [] name = "v_line" -> s.v_line
    [] name = "function_plot" -> s.x
    [] name = "circle_function_plot" -> s.x2
    [] name = "function_display" -> s.function_display

\* Animator._plots, as what each of its drawables shows
Plots(s) == [k \in 1..Len(s.plots) |-> Shown(s, s.plots[k])]

\* A variant that takes the list to hand back before it calls the update
\* hook.
make_frame_stale(s, now) ==
  Only({IF u.exc # "none"
        THEN [s |-> u.s, exc |-> u.exc, calls |-> 1, plots |-> <<>>]
        ELSE [s |-> [u.s EXCEPT !.delta_t = now - s.last_t, !.last_t = now],
              exc |-> "none", calls |-> 1, plots |-> Plots(s)]
          : u \in {Animation_update(s, s.delta_t)}})

\* Animator._make_frame(i) when perf_counter() returns now:
\* [s, exc, calls, plots], calls the number of times the update hook was
\* invoked and plots the list handed back (nothing when the hook raised)
make_frame(s, now) ==
  Only({IF u.exc # "none"
        THEN [s |-> u.s, exc |-> u.exc, calls |-> 1, plots |-> <<>>]
        ELSE [s |-> [u.s EXCEPT !.delta_t = now - s.last_t, !.last_t = now],
              exc |-> "none", calls |-> 1, plots |-> Plots(u.s)]
          : u \in {Animation_update(s, s.delta_t)}})

\* Circles.__init__ followed by FourierAnimation.__init__(function_name):
\* the object after construction
FourierAnimation(function_name) ==
  Only({[data |-> data1,
         resolution |-> InitialN \div 2 + 1,
         circles |-> update_plots(ZeroBuffer(InitialN \div 2 + 1), data0,
                                  InitialN \div 2 + 1, 0).circles,
         counts |-> -2,
         increment |-> 4,
         function |-> function,
         function_display |-> "f(t)",
         v_line |-> [x1 |-> RealZero, y |-> RealZero],
         x |-> [num |-> Roll(y, -2), den |-> 1],
         x2 |-> Roll(y2, -2),
         rescale |-> VerticalRescaler,
         y_limits |-> <<-1, 1>>,
         delta_t |-> InitialDeltaT,
         last_t |-> 0,
         plots |-> <<"circles._plot">>,
         main_animation |-> "None"]
          : data0 \in {FourierData},
            function \in {FunctionRtoR(function_name, "t").fn},
            data1 \in {Data_set_function(
                         FourierData, FunctionRtoR(function_name, "t").fn).d},
            y \in {Call(FunctionRtoR(function_name, "t").fn,
                        AnimationT, <<>>).y},
            y2 \in {Irfft(get_amplitudes(
                      Data_set_function(
                        FourierData,
                        FunctionRtoR(function_name, "t").fn).d,
                      InitialN \div 2 + 1).amps)}})

\* ------------------------------------------------------------------------
\* qt_widgets/slider.py: a HorizontalSliderBox with its Slider, taken on
\* its own.  The box is [lim, minimum, maximum, position, label]: the
\* range of values, the QSlider's range of ticks and its position, and
\* the value the box's label shows (<<>> before any).  A value is the
\* fraction <<n, d>> with d > 0.  The box observes its own slider
\* (set_observers appends it), so every valueChanged rewrites the label;
\* notified lists the values handed to the observers.
\* ------------------------------------------------------------------------
\* Slider.__init__ within HorizontalSliderBox.__init__
HorizontalSliderBox ==
  [lim |-> <<0, 99>>, minimum |-> 0, maximum |-> 200, position |-> 0,
   label |-> <<>>]

\* Slider._transform(slider_val)
Slider_transform(box, slider_val) ==
  <<box.lim[1] * (box.maximum - box.minimum)
      + (box.lim[2] - box.lim[1]) * (slider_val - box.minimum),
    box.maximum - box.minimum>>

\* QSlider.setValue(v) with valueChanged connected to Slider.notify_change:
\* the position is kept within the ticks, and the observers hear of it
\* only if it changed
setValue(box, v) ==
  LET p == IF v < box.minimum THEN box.minimum
           ELSE IF v > box.maximum THEN box.maximum ELSE v
  IN IF p = box.position THEN [box |-> box, notified |-> <<>>]
     ELSE [box |-> [box EXCEPT !.position = p,
                               !.label = Slider_transform(box, p)],
           notified |-> <<Slider_transform(box, p)>>]

\* HorizontalSliderBox.set_number_of_ticks(number_of_ticks):
\* QSlider.setRange(0, number_of_ticks - 1), which keeps the position
\* within the new ticks
set_number_of_ticks(box, number_of_ticks) ==
  setValue([box EXCEPT !.minimum = 0, !.maximum = number_of_ticks - 1],
           box.position)

\* Slider.set_value(value), for a whole value
set_value(box, value) ==
  LET num == (box.maximum - box.minimum) * (value - box.lim[1])
      den == box.lim[2] - box.lim[1]
      slider_value == num \div den
  IN setValue(box, IF 2 * (num % den) > den
                   THEN slider_value + 1 + box.minimum
                   ELSE slider_value + box.minimum)

\* A variant that cuts the tick off instead of rounding it.
line_edit_returned_truncating(box, min_val, max_val, tick_val) ==
  IF min_val >= max_val \/ tick_val <= 1 \/ tick_val > 65535
  THEN [box |-> box, notified |-> <<>>]
  ELSE LET before == Slider_transform(box, box.position)
           ranged == set_number_of_ticks(box, tick_val)
           limited == [ranged.box EXCEPT !.lim = <<min_val, max_val>>]
           value == IF before[1] > max_val * before[2] THEN <<max_val, 1>>
                    ELSE IF before[1] < min_val * before[2]
                    THEN <<min_val, 1>>
                    ELSE before
           num == (tick_val - 1) * (value[1] - min_val * value[2])
           den == (max_val - min_val) * value[2]
           tick_value == num \div den + limited.minimum
           moved == setValue(limited, tick_value)
       IN [box |-> [moved.box EXCEPT !.label =
                      <<(tick_value - limited.minimum) * (max_val - min_val)
                          + min_val * (tick_val - 1),
                        tick_val - 1>>],
           notified |-> ranged.notified \o moved.notified]

\* SliderBoxRangeControls.line_edit_returned with the three line edits
\* reading min_val, max_val and tick_val: [box, notified]
line_edit_returned(box, min_val, max_val, tick_val) ==
  IF min_val >= max_val \/ tick_val <= 1 \/ tick_val > 65535
  THEN [box |-> box, notified |-> <<>>]
  ELSE LET before == Slider_transform(box, box.position)
           ranged == set_number_of_ticks(box, tick_val)
           limited == [ranged.box EXCEPT !.lim = <<min_val, max_val>>]
           value == IF before[1] > max_val * before[2] THEN <<max_val, 1>>
                    ELSE IF before[1] < min_val * before[2]
                    THEN <<min_val, 1>>
                    ELSE before
           \* tick_float_value = m*(value - min_val), the fraction num/den
           num == (tick_val - 1) * (value[1] - min_val * value[2])
           den == (max_val - min_val) * value[2]
           tick_value == IF 2 * (num % den) >= den
                         THEN num \div den + 1 + limited.minimum
                         ELSE num \div den + limited.minimum
           moved == setValue(limited, tick_value)
       IN \* slider_info['value'] = value, shown by the box's label
          [box |-> [moved.box EXCEPT !.label =
                      <<(tick_value - limited.minimum) * (max_val - min_val)
                          + min_val * (tick_val - 1),
                        tick_val - 1>>],
           notified |-> ranged.notified \o moved.notified]

\* ------------------------------------------------------------------------
\* qt_app.py: the window, its VariableSlidersManager and the parameter
\* sliders.  A slider is [id, value]; a slider event is [kind, id, value],
\* where kind tells whether the id is a str, a sympy Symbol, or absent
\* (the empty dict).  Handlers return [s, exc, calls]: calls lists the
\* set_params calls made, each with its arguments, the ids of the sliders
\* they came from, the parameters of the animation's function at the call,
\* and the flag _setting_sliders at the call.
\* ------------------------------------------------------------------------
\* App.__init__: no parameter sliders yet, _setting_sliders False; beside
\* the window, a slider box as HorizontalSliderBox() makes it
Widgets == [sliders |-> <<>>, setting_sliders |-> FALSE,
            slider_box |-> HorizontalSliderBox]

\* FunctionRtoR.get_enumerated_default_values
get_enumerated_default_values(fn) ==
  [i \in 1..Len(fn.parameters) |->
     <<fn.parameters[i], IF fn.parameters[i] \in fn.scale THEN 1 ELSE 0>>]

\* VariableSlidersManager.get_slider_parameters
get_slider_parameters(boxes) ==
  [k \in 1..Len(boxes) |-> Num(boxes[k].value)]

\* App.on_slider_changed(slider_input)
on_slider_changed(s, slider_input) ==
  IF slider_input.kind = "str"
  THEN IF slider_input.id = "Speed"
       THEN [s |-> Animation_set_speed(s, slider_input.value).s,
             exc |-> "none", calls |-> <<>>]
       ELSE IF slider_input.id = "Maximum Frequency"
       THEN Only({[s |-> r.s, exc |-> r.exc, calls |-> <<>>]
                    : r \in {Animation_set_number_of_circles(
                               s, slider_input.value + 1)}})
       ELSE [s |-> s, exc |-> "none", calls |-> <<>>]
  ELSE IF s.setting_sliders
  THEN [s |-> s, exc |-> "none", calls |-> <<>>]
  ELSE Only({[s |-> r.s, exc |-> r.exc,
              calls |-> <<[args |-> get_slider_parameters(s.sliders),
                           ids |-> [k \in 1..Len(s.sliders) |->
                                      s.sliders[k].id],
                           parameters |-> s.function.parameters,
                           setting |-> s.setting_sliders]>>]
               : r \in {Animation_set_params(
                          s, get_slider_parameters(s.sliders))}})

\* VariableSlidersManager.set_sliders from slider k on: each new slider's
\* set_value moves it off position 0, the slider notifies the window, and
\* only then is the slider appended
RECURSIVE set_sliders_from(_, _, _, _)
set_sliders_from(k, s, d, calls) ==
  IF k > Len(d) THEN [s |-> s, exc |-> "none", calls |-> calls]
  ELSE Only({IF r.exc # "none"
             THEN [s |-> r.s, exc |-> r.exc, calls |-> calls \o r.calls]
             ELSE set_sliders_from(
                    k + 1,
                    [r.s EXCEPT !.sliders =
                       Append(r.s.sliders,
                              [id |-> d[k][1], value |-> d[k][2]])],
                    d, calls \o r.calls)
               : r \in {on_slider_changed(
                          s, [kind |-> "Symbol", id |-> d[k][1],
                              value |-> d[k][2]])}})

\* App.set_function_from_text(text)
set_function_from_text(s, text) ==
  Only({IF r.exc # "none"
        THEN [s |-> r.s, exc |-> "none", built |-> FALSE, calls |-> <<>>]
        ELSE Only({IF made.exc # "none"
                   THEN [s |-> made.s, exc |-> made.exc, built |-> FALSE,
                         calls |-> made.calls]
                   ELSE Only({[s |-> fin.s, exc |-> fin.exc, built |-> TRUE,
                               calls |-> made.calls \o fin.calls]
                                : fin \in {on_slider_changed(
                                     [made.s EXCEPT
                                        !.setting_sliders = FALSE],
                                     [kind |-> "none", id |-> "",
                                      value |-> 0])}})
                     : made \in {set_sliders_from(
                          1,
                          [r.s EXCEPT !.sliders = <<>>,
                                      !.setting_sliders = TRUE],
                          get_enumerated_default_values(r.s.function),
                          <<>>)}})
          : r \in {Animation_set_function(s, text)}})

\* Slider.notify_change(val) of parameter slider k, moved to a new value
notify_change(s, k, value) ==
  on_slider_changed(
    [s EXCEPT !.sliders[k].value = value],
    [kind |-> "Symbol", id |-> s.sliders[k].id, value |-> value])

\* ------------------------------------------------------------------------
\* The state machine: one FourierAnimation object and the calls made on it
\* and on its Circles.
\* ------------------------------------------------------------------------
VARIABLES
  data,              \* Circles._data, the FourierData
  resolution,        \* Circles.resolution
  circles,           \* Circles._circles
  counts,            \* FourierAnimation.counts, the rotation counter
  increment,         \* FourierAnimation.increment
  function,          \* FourierAnimation.function
  function_display,  \* FourierAnimation.function_display's text
  v_line,            \* FourierAnimation.v_line
  x,                 \* FourierAnimation.x
  x2,                \* FourierAnimation.x2
  rescale,           \* FourierAnimation._rescale
  delta_t,           \* Animator._delta_t, the time the last frame took
  last_t,            \* Animator._t, the clock at the end of the last frame
  plots,             \* Animator._plots, the drawables to redraw
  main_animation,    \* Animator.main_animation
  sliders,           \* VariableSlidersManager._sliders of the window
  setting_sliders,   \* App._setting_sliders
  slider_box,        \* a HorizontalSliderBox with range controls
  op,                \* history: the last call, its argument, what it raised
  ret,               \* history: what the last get_amplitudes returned
  eval_args,         \* history: the arguments of the last call of
                     \* FourierData.function by _update_data
  last_params,       \* history: the parameter values of the last
                     \* set_params, or the defaults since set_function
  steps              \* the number of calls made so far

vars == <<data, resolution, circles, counts, increment, function,
          function_display, v_line, x, x2, rescale, delta_t, last_t, plots,
          main_animation, sliders, setting_sliders, slider_box, op, ret,
          eval_args, last_params, steps>>

\* the object (and, around it, the window's sliders), as the record the
\* methods take
Self ==
  [data |-> data, resolution |-> resolution, circles |-> circles,
   counts |-> counts, increment |-> increment, function |-> function,
   function_display |-> function_display, v_line |-> v_line,
   x |-> x, x2 |-> x2, rescale |-> rescale, y_limits |-> <<-1, 1>>,
   delta_t |-> delta_t, last_t |-> last_t, plots |-> plots,
   main_animation |-> main_animation, sliders |-> sliders,
   setting_sliders |-> setting_sliders, slider_box |-> slider_box]

\* the object becomes s
Becomes(s) ==
  /\ data' = s.data
  /\ resolution' = s.resolution
  /\ circles' = s.circles
  /\ counts' = s.counts
  /\ increment' = s.increment
  /\ function' = s.function
  /\ function_display' = s.function_display
  /\ v_line' = s.v_line
  /\ x' = s.x
  /\ x2' = s.x2
  /\ rescale' = s.rescale
  /\ delta_t' = s.delta_t
  /\ last_t' = s.last_t
  /\ plots' = s.plots
  /\ main_animation' = s.main_animation
  /\ sliders' = s.sliders
  /\ setting_sliders' = s.setting_sliders
  /\ slider_box' = s.slider_box

\* the inputs
InitTexts == {TxtSquare, TxtShift, TxtCos}
SampleCounts == {-1, 0, 1, 2, 3, 4, 6}
Resolutions == 0..4
Speeds == {-1, 0, 4}
Counters == {-1, 0, 1}
Periods == {<<1, 12>>, <<-6, 24>>}
\* the time a frame can take, by perf_counter
Elapsed == {1, 2}
ParamInputs(fn) ==
  {<<>>} \cup [1..Len(fn.parameters) -> {Num(v) : v \in ArgVals}]
\* the FunctionRtoR objects a caller can construct
Functions ==
  {FunctionRtoR(text, "t").fn :
     text \in {u \in Texts : FunctionRtoR(u, "t").exc = "none"}}

\* the object is s
Is(s) ==
  /\ data = s.data
  /\ resolution = s.resolution
  /\ circles = s.circles
  /\ counts = s.counts
  /\ increment = s.increment
  /\ function = s.function
  /\ function_display = s.function_display
  /\ v_line = s.v_line
  /\ x = s.x
  /\ x2 = s.x2
  /\ rescale = s.rescale
  /\ delta_t = s.delta_t
  /\ last_t = s.last_t
  /\ plots = s.plots
  /\ main_animation = s.main_animation
  /\ sliders = s.sliders
  /\ setting_sliders = s.setting_sliders
  /\ slider_box = s.slider_box

Init ==
  /\ \E text \in InitTexts :
       /\ \E s \in {FourierAnimation(text) @@ Widgets} : Is(s)
       /\ op = [name |-> "__init__", exc |-> "none", arg |-> text]
       /\ eval_args = DictValues(get_default_values(FunctionRtoR(text, "t").fn))
       /\ last_params = DictValues(get_default_values(FunctionRtoR(text, "t").fn))
  /\ ret = <<>>
  /\ steps = 0

\* one more call, while the model's budget of calls lasts
Step == steps < MaxSteps /\ steps' = steps + 1

\* ---- calls on the animation's Circles --------------------------------

\* Circles.set_function(function)
CirclesSetFunction ==
  \E fn \in Functions :
    \E r \in {Circles_set_function(Self, fn)} :
       /\ Becomes(r.s)
       /\ op' = [name |-> "Circles.set_function", exc |-> r.exc, arg |-> fn]
       /\ ret' = ret
       /\ eval_args' = DictValues(get_default_values(fn))
       /\ last_params' = DictValues(get_default_values(fn))

\* Circles.set_params(*args)
CirclesSetParams ==
  \E args \in ParamInputs(data.function) :
    \E r \in {Circles_set_params(Self, args)} :
       /\ Becomes(r.s)
       /\ op' = [name |-> "Circles.set_params", exc |-> r.exc, arg |-> args]
       /\ ret' = ret
       /\ eval_args' = ActualArgs(data.function, args)
       /\ last_params' = ActualArgs(data.function, args)

\* Circles.set_number_of_circles(resolution)
CirclesSetNumberOfCircles ==
  \E r \in Resolutions :
    /\ Becomes([Self EXCEPT !.resolution =
                  set_number_of_circles(data, resolution, r)])
    /\ op' = [name |-> "Circles.set_number_of_circles", exc |-> "none",
              arg |-> r]
    /\ UNCHANGED <<ret, eval_args, last_params>>

\* Circles.set_number_of_points(n)
CirclesSetNumberOfPoints ==
  \E n \in SampleCounts :
    \E r \in {Circles_set_number_of_points(Self, n)} :
       /\ Becomes(r.s)
       /\ op' = [name |-> "Circles.set_number_of_points", exc |-> r.exc,
                 arg |-> n]
       /\ ret' = ret
       /\ eval_args' =
            IF n >= 1
            THEN ActualArgs(data.function,
                            DictKeys(get_default_values(data.function)))
            ELSE eval_args
       /\ last_params' = last_params

\* Circles.set_period(start, period)
CirclesSetPeriod ==
  \E p \in Periods :
    \E r \in {Circles_set_period(Self, p[1], p[2])} :
       /\ Becomes(r.s)
       /\ op' = [name |-> "Circles.set_period", exc |-> r.exc, arg |-> p]
       /\ ret' = ret
       /\ eval_args' =
            IF data.n >= 1
            THEN ActualArgs(data.function,
                            DictKeys(get_default_values(data.function)))
            ELSE eval_args
       /\ last_params' = last_params

\* Circles.update_plots(i)
CirclesUpdatePlots ==
  \E i \in Counters :
    \E u \in {update_plots(circles, data, resolution, i)} :
       /\ Becomes([Self EXCEPT !.circles = u.circles])
       /\ op' = [name |-> "Circles.update_plots", exc |-> u.exc, arg |-> i]
       /\ UNCHANGED <<ret, eval_args, last_params>>

\* Circles.get_amplitudes()
CirclesGetAmplitudes ==
  \E g \in {get_amplitudes(data, resolution)} :
     /\ Becomes(Self)
     /\ op' = [name |-> "Circles.get_amplitudes", exc |-> g.exc,
               arg |-> <<>>]
     /\ ret' = g.amps
     /\ UNCHANGED <<eval_args, last_params>>

Next ==
  \/ Step /\ CirclesSetFunction
  \/ Step /\ CirclesSetParams
  \/ Step /\ CirclesSetNumberOfCircles
  \/ Step /\ CirclesSetNumberOfPoints
  \/ Step /\ CirclesSetPeriod
  \/ Step /\ CirclesUpdatePlots
  \/ Step /\ CirclesGetAmplitudes

Spec == Init /\ [][Next]_vars

\* ---- calls on the animation -------------------------------------------

\* FourierAnimation.set_function(text)
SetFunction ==
  \E text \in Texts :
    \E r \in {Animation_set_function(Self, text)},
       made \in {FunctionRtoR(text, "t")} :
       /\ Becomes(r.s)
       /\ op' = [name |-> "set_function", exc |-> r.exc, arg |-> text]
       /\ ret' = ret
       /\ eval_args' = IF made.exc = "none"
                       THEN DictValues(get_default_values(made.fn))
                       ELSE eval_args
       /\ last_params' = IF made.exc = "none"
                         THEN DictValues(get_default_values(made.fn))
                         ELSE last_params

\* FourierAnimation.set_params(*args)
SetParams ==
  \E args \in ParamInputs(function) :
    \E r \in {Animation_set_params(Self, args)} :
       /\ Becomes(r.s)
       /\ op' = [name |-> "set_params", exc |-> r.exc, arg |-> args]
       /\ ret' = ret
       /\ eval_args' = ActualArgs(data.function, args)
       /\ last_params' = ActualArgs(data.function, args)

\* FourierAnimation.set_number_of_circles(resolution)
SetNumberOfCircles ==
  \E r \in Resolutions :
    \E res \in {Animation_set_number_of_circles(Self, r)} :
       /\ Becomes(res.s)
       /\ op' = [name |-> "set_number_of_circles", exc |-> res.exc,
                 arg |-> r]
       /\ UNCHANGED <<ret, eval_args, last_params>>

\* FourierAnimation.set_speed(speed)
SetSpeed ==
  \E v \in Speeds :
    /\ Becomes(Animation_set_speed(Self, v).s)
    /\ op' = [name |-> "set_speed", exc |-> "none", arg |-> v]
    /\ UNCHANGED <<ret, eval_args, last_params>>

\* Animator.animation_loop(): it changes nothing of the animation, and is
\* not counted among the calls
AnimationLoop ==
  /\ Becomes(animation_loop(Self))
  /\ op' = [name |-> "animation_loop", exc |-> "none", arg |-> plots]
  /\ UNCHANGED <<ret, eval_args, last_params, steps>>

\* Animator._make_frame(i): one tick, which calls
\* FourierAnimation.update(self._delta_t) and then reads the clock;
\* FuncAnimation calls it once animation_loop has made it
MakeFrame ==
  /\ main_animation # "None"
  /\ counts + increment <= MaxCount
  /\ counts + increment >= 0 - MaxCount
  /\ \E e \in Elapsed :
       \E r \in {make_frame(Self, last_t + e)} :
          /\ Becomes(r.s)
          /\ op' = [name |-> "update", exc |-> r.exc, arg |-> r.s.counts,
                    delta_t |-> delta_t, calls |-> r.calls,
                    plots |-> r.plots]
  /\ UNCHANGED <<ret, eval_args, last_params>>

NextAnimation ==
  \/ Step /\ SetFunction
  \/ Step /\ SetParams
  \/ Step /\ SetNumberOfCircles
  \/ Step /\ SetSpeed
  \/ Step /\ MakeFrame
  \/ AnimationLoop

SpecAnimation == Init /\ [][NextAnimation]_vars

\* ---- the Qt window ------------------------------------------------------

\* the values a parameter slider is dragged to
SliderVals == {0, 1, 2}
\* the events of the two fixed sliders
FixedSliderInputs ==
  {[kind |-> "str", id |-> "Speed", value |-> v] : v \in Speeds}
    \cup {[kind |-> "str", id |-> "Maximum Frequency", value |-> v]
             : v \in 0..2}

\* App.__init__: the Canvas makes the animation of the rectangle wave
\* (here the square wave, which has no parameter either) and sets its
\* speed to 1; the window has no parameter slider; animation_loop() runs
InitApp ==
  /\ \E s \in {animation_loop(
                  Animation_set_speed(FourierAnimation(TxtSquare), 1).s)
                  @@ Widgets} : Is(s)
  /\ op = [name |-> "App.__init__", exc |-> "none", arg |-> TxtSquare]
  /\ eval_args = <<>>
  /\ last_params = <<>>
  /\ ret = <<>>
  /\ steps = 0

\* App.on_entry_returned(text), or a preset of the dropdown:
\* App.set_function_from_text(text)
SetFunctionFromText ==
  \E text \in Texts :
    \E r \in {set_function_from_text(Self, text)} :
       /\ Becomes(r.s)
       /\ op' = [name |-> "set_function_from_text", exc |-> r.exc,
                 arg |-> text, built |-> r.built, calls |-> r.calls]
       /\ ret' = ret
       /\ eval_args' = IF r.built
                       THEN get_slider_parameters(r.s.sliders)
                       ELSE eval_args
       /\ last_params' = IF r.built
                         THEN get_slider_parameters(r.s.sliders)
                         ELSE last_params

\* the user drags parameter slider k: Slider.notify_change
SliderMoved ==
  \E k \in 1..Len(sliders) :
    \E v \in SliderVals \ {sliders[k].value} :
      \E r \in {notify_change(Self, k, v)} :
         /\ Becomes(r.s)
         /\ op' = [name |-> "notify_change", exc |-> r.exc, arg |-> k,
                   built |-> FALSE, calls |-> r.calls]
         /\ ret' = ret
         /\ eval_args' = get_slider_parameters(r.s.sliders)
         /\ last_params' = get_slider_parameters(r.s.sliders)

\* the user drags the Speed or the Maximum Frequency slider
FixedSliderMoved ==
  \E slider_input \in FixedSliderInputs :
    \E r \in {on_slider_changed(Self, slider_input)} :
       /\ Becomes(r.s)
       /\ op' = [name |-> "on_slider_changed", exc |-> r.exc,
                 arg |-> slider_input, built |-> FALSE, calls |-> r.calls]
       /\ UNCHANGED <<ret, eval_args, last_params>>

NextApp ==
  \/ Step /\ SetFunctionFromText
  \/ Step /\ SliderMoved
  \/ Step /\ FixedSliderMoved

SpecApp == InitApp /\ [][NextApp]_vars

\* ---- a slider box and its range controls ---------------------------------

\* what the user types into the min, max and number-of-ticks line edits
RangeInputs ==
  {<<lo, hi, n>> : lo \in {-1, 0, 2}, hi \in {0, 3, 10},
                   n \in {1, 3, 4, 65536}}
\* the ticks the user drags the slider to
DragTo == {0, 1, 2, 700, 2000}

\* a parameter slider as VariableSlidersManager.set_sliders builds it, for
\* a default value of 0 or 1; the animation is the window's
InitSlider ==
  /\ \E value \in {0, 1} :
       \E s \in {animation_loop(
                   Animation_set_speed(FourierAnimation(TxtSquare), 1).s)
                   @@ [Widgets EXCEPT !.slider_box =
                         set_value(
                           set_number_of_ticks(
                             [HorizontalSliderBox EXCEPT !.lim = <<-10, 10>>],
                             2001).box,
                           value).box]} : Is(s)
  /\ op = [name |-> "set_sliders", exc |-> "none", arg |-> <<>>]
  /\ eval_args = <<>>
  /\ last_params = <<>>
  /\ ret = <<>>
  /\ steps = 0

\* return is pressed in a line edit of the range controls, or they are
\* closed: SliderBoxRangeControls.line_edit_returned
LineEditReturned ==
  \E input \in RangeInputs :
    \E r \in {line_edit_returned(slider_box, input[1], input[2],
                                  input[3])} :
       /\ Becomes([Self EXCEPT !.slider_box = r.box])
       /\ op' = [name |-> "line_edit_returned", exc |-> "none",
                 arg |-> input, box |-> slider_box,
                 notified |-> r.notified]
       /\ UNCHANGED <<ret, eval_args, last_params>>

\* the user drags the slider to another tick
SliderDragged ==
  \E v \in DragTo :
    /\ v >= slider_box.minimum
    /\ v <= slider_box.maximum
    /\ v # slider_box.position
    /\ \E r \in {setValue(slider_box, v)} :
         /\ Becomes([Self EXCEPT !.slider_box = r.box])
         /\ op' = [name |-> "setValue", exc |-> "none", arg |-> v,
                   box |-> slider_box, notified |-> r.notified]
    /\ UNCHANGED <<ret, eval_args, last_params>>

NextSlider ==
  \/ Step /\ LineEditReturned
  \/ Step /\ SliderDragged

SpecSlider == InitSlider /\ [][NextSlider]_vars

\* ------------------------------------------------------------------------
\* Properties.
\* ------------------------------------------------------------------------
\* the number of harmonics of the current sample count, n//2 + 1
M == data.n \div 2 + 1
\* the buffer's length in harmonics
Capacity == Len(circles) \div (PtsPerCircle + 1)
\* two buffer entries hold the same number, or both hold nan
SameEntry(p, q) == (p.d = 0 /\ q.d = 0) \/ VSame(p, q)
SameBuffer(b, c) ==
  Len(b) = Len(c) /\ \A k \in 1..Len(b) : SameEntry(b[k], c[k])

\* C1: Circles.set_number_of_circles(r) makes the resolution r exactly when
\* 1 <= r <= M (M = n//2 + 1 of the current sample count); for every other
\* r it raises nothing and leaves the resolution and every other attribute
\* as it was.
C1_SetNumberOfCircles ==
  [][op'.name = "Circles.set_number_of_circles" =>
       /\ op'.exc = "none"
       /\ IF 1 <= op'.arg /\ op'.arg <= M
          THEN resolution' = op'.arg
          ELSE UNCHANGED <<data, resolution, circles, counts, increment,
                           function, function_display, v_line, x, x2,
                           rescale>>]_vars

\* C1: the largest legal resolution was accepted after the sample count
\* had grown
C1_Accepted ==
  /\ op.name = "Circles.set_number_of_circles"
  /\ data.n = 6
  /\ op.arg = M
  /\ resolution = M

\* C2: in every state reached by set_function, set_params,
\* set_number_of_points, set_period, set_number_of_circles and update_plots
\* calls, 1 <= resolution <= M.
C2_ResolutionInRange == 1 <= resolution /\ resolution <= M

\* C3: FourierAnimation.set_function with a text whose free symbols do not
\* include t raises VariableNotFoundError and leaves the animation's
\* function, the FourierData (its function and coefficients), the
\* resolution and the rotation counter as they were.
C3_VariableNotFound ==
  [][(/\ op'.name = "set_function"
      /\ \A k \in 1..Len(op'.arg.free) : op'.arg.free[k] # "t") =>
       /\ op'.exc = "VariableNotFoundError"
       /\ UNCHANGED <<function, data, resolution, counts>>]_vars

\* C3: a text without t was refused after the animation had ticked
C3_Refused ==
  /\ op.name = "set_function"
  /\ op.exc = "VariableNotFoundError"
  /\ counts # -2

\* C4: when the evaluation of the function fails inside _update_data during
\* set_function, set_params, set_number_of_points or set_period, the stored
\* function, the sample count, the sample grid, the sampled values and the
\* amplitude arrays all equal their values before the call.
C4_FailedEvaluationKeepsState ==
  [][(/\ op'.name \in {"Circles.set_function", "Circles.set_params",
                       "Circles.set_number_of_points", "Circles.set_period"}
      /\ op'.exc \in {"TypeError", "NameError"}) =>
       /\ data'.function = data.function
       /\ data'.n = data.n
       /\ data'.t = data.t
       /\ data'.x = data.x
       /\ data'.a = data.a
       /\ data'.orig = data.orig]_vars

\* C5: set_number_of_points and set_period evaluate the function with the
\* parameter values last used: those of the latest set_params, or the
\* defaults when there was none since set_function.
C5_LastUsedParameters ==
  (/\ op.name \in {"Circles.set_number_of_points", "Circles.set_period"}
   /\ op.exc \notin {"ZeroDivisionError", "ValueError"}) =>
    eval_args = last_params

\* C6: after any sequence of FourierData operations the amplitude array and
\* the frequency array both have M = n//2 + 1 entries, and the frequency
\* array is strictly ascending and is the frequency grid of the current n.
C6_ArraysOfCurrentN ==
  /\ Len(data.a.num) = M
  /\ Len(data.f) = M
  /\ \A j \in 1..(Len(data.f) - 1) : FracLess(data.f[j], data.f[j + 1])
  /\ data.n >= 1 => data.f = Rfftfreq(data.n)

\* C7: Circles.get_amplitudes() returns an array whose bins at index >=
\* resolution are zero and whose bins at index < resolution are the stored
\* raw amplitudes, and leaves the stored array as it was.
C7_GetAmplitudes ==
  [][op'.name = "Circles.get_amplitudes" =>
       /\ op'.exc = "none"
       /\ data' = data
       /\ Len(ret') = Len(data.orig.num)
       /\ \A j \in 1..Len(ret') :
            IF j - 1 >= resolution
            THEN SameEntry(ret'[j], Val(ZZero, 1))
            ELSE SameEntry(ret'[j], Val(data.orig.num[j], data.orig.den))]_vars

\* C8: for every sampled signal x, after _update_data the phasor chain
\* summed at rotation counter 0 and resolution M ends at a vertex whose real
\* part is x[0].  (Stated for coefficients of the initial sample count,
\* whose frequency grid the object holds.)
C8_RoundTripAtZero ==
  (/\ op.name = "Circles.update_plots"
   /\ op.arg = 0
   /\ op.exc = "none"
   /\ resolution = M
   /\ data.n = InitialN
   /\ Len(data.x.num) = data.n
   /\ data.x.den # 0) =>
    LET end_point == get_end_point(circles)
    IN /\ end_point.d # 0
       /\ ZRe2(end_point.z)[2] = 0
       /\ ZRe2(end_point.z)[1] * data.x.den
            = 2 * end_point.d * data.x.num[1]

\* C9: monotone truncation: for the same coefficients and counter i and all
\* r1 < r2 <= M, the vertices of harmonics 0..r1-1 drawn by update_plots
\* under resolution r2 are those drawn under resolution r1.
C9_MonotoneTruncation ==
  (/\ op.name = "Circles.update_plots"
   /\ op.exc = "none"
   /\ resolution <= M) =>
    \A r1 \in 1..(resolution - 1) :
      \E lower \in {update_plots(ZeroBuffer(Capacity), data, r1, op.arg)} :
        /\ lower.exc = "none"
        /\ \A j \in 0..(r1 - 1) :
             SameEntry(circles[j * (PtsPerCircle + 1) + 1],
                       lower.circles[j * (PtsPerCircle + 1) + 1])

\* C9: a chain of three harmonics with a non-zero vertex was drawn at a
\* counter other than 0
C9_ThreeHarmonicsDrawn ==
  /\ op.name = "Circles.update_plots"
  /\ op.exc = "none"
  /\ op.arg # 0
  /\ resolution = 3
  /\ resolution <= M
  /\ circles[PtsPerCircle + 2].z # ZZero

\* C10: rotation-counter symmetry: the buffer after update_plots(i) is
\* determined by i, the coefficients and the resolution, whatever the
\* buffer held before; so update_plots at i, at i + s and at (i + s) - s
\* brings back the buffer of the first call.
C10_BufferOfCounter ==
  [][(op'.name = "Circles.update_plots" /\ op'.exc = "none") =>
       \E redrawn \in {update_plots(ZeroBuffer(Capacity), data, resolution,
                                     op'.arg)} :
         SameBuffer(circles', redrawn.circles)]_vars

\* C10: the chain was redrawn with fewer harmonics than the buffer holds,
\* over what an earlier call had drawn
C10_Redrawn ==
  /\ op.name = "Circles.update_plots"
  /\ op.exc = "none"
  /\ steps >= 2
  /\ resolution < Capacity
  /\ get_end_point(circles).z # ZZero

\* the samples y lie within [lo, hi] = limits
WithinLimits(y, limits) ==
  limits[1] <= SeqMin(y, Len(y)) /\ SeqMax(y, Len(y)) <= limits[2]

\* C11: rescaling idempotence: when the minimum and the maximum of the
\* sampled signal lie within [lo, hi], in_bounds() is true and _update_data
\* and _set_x keep the samples as they are, without rescaling.
C11_InBoundsKeepsSamples ==
  (op.name \in {"set_function", "set_params"} /\ op.exc = "none") =>
    \E y \in {Call(data.function, data.t, eval_args).y},
       w \in {Call(function, AnimationT, eval_args).y} :
      /\ WithinLimits(y, data.y_limits) =>
           in_bounds(data.rescale) /\ data.x = Samples(y, 1)
      /\ WithinLimits(w, <<-1, 1>>) =>
           in_bounds(rescale) /\ x = [num |-> Roll(w, counts), den |-> 1]

\* C11: a varying signal within the limits was sampled after the animation
\* had ticked
C11_WithinLimits ==
  /\ op.name \in {"set_function", "set_params"}
  /\ op.exc = "none"
  /\ counts # -2
  /\ WithinLimits(Call(data.function, data.t, eval_args).y, data.y_limits)
  /\ data.rescale.y_diff # 0

\* the last call on the Circles was one that samples the function, and the
\* function was evaluated
Sampled ==
  /\ op.name \in {"Circles.set_function", "Circles.set_params",
                  "Circles.set_number_of_points", "Circles.set_period"}
  /\ op.exc \in {"none", "IndexError"}

\* C12: for a constant sampled signal (min = max), also one outside
\* [lo, hi], _update_data skips rescaling: the samples are stored as they
\* were evaluated and nothing is divided by the zero span.
C12_ZeroSpanSkipsRescaling ==
  (Sampled /\ data.rescale.y_diff = 0) =>
    /\ data.x.den # 0
    /\ data.x = Samples(Call(data.function, data.t, eval_args).y, 1)

\* C13: Circles.set_function, set_params, set_number_of_points and
\* set_period leave the resolution and the buffer (its length and what it
\* holds) as they were, whether or not FourierData raises.
C13_DelegationsKeepResolution ==
  [][op'.name \in {"Circles.set_function", "Circles.set_params",
                   "Circles.set_number_of_points", "Circles.set_period"} =>
       /\ resolution' = resolution
       /\ Len(circles') = Len(circles)
       /\ circles' = circles]_vars

\* C13: the sample count was raised and the resolution stayed
C13_SampleCountRaised ==
  /\ op.name = "Circles.set_number_of_points"
  /\ op.arg = 6
  /\ data.n = 6
  /\ resolution = InitialN \div 2 + 1

\* the minimum and maximum that sampling fn on the grid t with the numbers
\* args, in the order of fn's parameter list, leaves in the rescaler
SampledRange(fn, t, args) ==
  Only({<<SeqMin(y, Len(y)), SeqMax(y, Len(y))>>
          : y \in {[k \in 1..Len(t) |-> Wave(fn.wave, t[k], args)]}})

\* C14: FourierData.set_function(f) and set_params(values) keep the grid
\* (n, period, t); set_function stores f and samples it with f's default
\* values; set_params keeps the stored function and samples it with the
\* supplied values in the order of the function's parameter list.
C14_FunctionAndParamsKeepGrid ==
  [][/\ op'.name \in {"Circles.set_function", "Circles.set_params"} =>
          /\ data'.n = data.n
          /\ data'.period = data.period
          /\ data'.t = data.t
     /\ op'.name = "Circles.set_function" =>
          /\ data'.function = op'.arg
          /\ op'.exc \in {"none", "IndexError"} =>
               <<data'.rescale.y_min, data'.rescale.y_max>>
                 = SampledRange(op'.arg, data.t,
                                DictValues(get_default_values(op'.arg)))
     /\ op'.name = "Circles.set_params" =>
          /\ data'.function = data.function
          /\ (op'.exc \in {"none", "IndexError"} /\ op'.arg # <<>>) =>
               <<data'.rescale.y_min, data'.rescale.y_max>>
                 = SampledRange(data.function, data.t, op'.arg)]_vars

\* C14: two different values were supplied for the two parameters of the
\* stored function
C14_ParamsSupplied ==
  /\ op.name = "Circles.set_params"
  /\ op.exc = "none"
  /\ op.arg = <<Num(1), Num(2)>>
  /\ data.function.parameters = <<"k", "c">>

\* C15, as stated: the rotation counter starts at -2 and each tick adds the
\* step in force to it, without wrapping or clamping, so that after k ticks
\* it is -2 plus the sum of the steps; no other call changes it; with step
\* 0 a tick leaves the counter, the chain buffer and the displayed waveform
\* arrays unchanged, and a negative step decreases the counter.
C15_CounterAndPause ==
  /\ counts = -2
  /\ [][/\ op'.name = "update" =>
             /\ counts' = counts + increment
             /\ increment < 0 => counts' < counts
             /\ increment = 0 =>
                  /\ counts' = counts
                  /\ circles' = circles
                  /\ x' = x
                  /\ x2' = x2
        /\ op'.name # "update" => counts' = counts]_vars

\* C15, amended: as above, but with step 0 a tick redraws the chain buffer
\* for the unchanged counter from the current coefficients and resolution;
\* the buffer is left unchanged when the call before was a tick too.
C15_CounterAndPauseRedrawn ==
  /\ counts = -2
  /\ [][/\ op'.name = "update" =>
             /\ counts' = counts + increment
             /\ increment < 0 => counts' < counts
             /\ increment = 0 =>
                  /\ counts' = counts
                  /\ x' = x
                  /\ x2' = x2
                  /\ \E redrawn \in {update_plots(ZeroBuffer(Capacity), data,
                                                  resolution, counts)} :
                       SameBuffer(circles', redrawn.circles)
                  /\ op.name = "update" => circles' = circles
        /\ op'.name # "update" => counts' = counts]_vars

\* C15: a tick with step 0 after the counter had advanced
C15_PausedTick ==
  /\ op.name = "update"
  /\ increment = 0
  /\ counts = 2
  /\ get_end_point(circles).z # ZZero

\* C16: a sample count n < 2 given to set_number_of_points is clamped or
\* ignored and raises nothing, so the sample count is at least 2 in every
\* reachable state.
C16_SampleCountAtLeastTwo ==
  /\ data.n >= 2
  /\ (op.name = "Circles.set_number_of_points" /\ op.arg < 2) =>
       op.exc = "none"

\* chain vertex j of the buffer: buffer index j*(P + 1)
Vertex(j) == circles[j * (PtsPerCircle + 1) + 1]

\* amplitude[j] rotated by the phase -2*pi*i*frequency[j]
Rotated(i, j) ==
  VMul(Val(data.a.num[j + 1], data.a.den), Rotation(i, data.f[j + 1]))

RECURSIVE RotatedSum(_, _)
\* the sum of the first j + 1 rotated amplitudes
RotatedSum(i, j) ==
  IF j = 0 THEN Rotated(i, 0)
  ELSE Only({VAdd(Rotated(i, j), before) : before \in {RotatedSum(i, j - 1)}})

\* C17: after update_plots(i) has returned, for each active harmonic j in
\* 0..resolution-1 in increasing frequency order, chain vertex j (buffer index
\* j*(P + 1)) is vertex j-1 plus amplitude[j] rotated by the phase
\* -2*pi*i*frequency[j], vertex 0 is amplitude[0] rotated by its own phase
\* alone, and so vertex j is the sum of the first j + 1 rotated amplitudes.
C17_VertexRecurrence ==
  (op.name = "Circles.update_plots" /\ op.exc = "none") =>
    /\ \A j \in 1..Len(data.f) : \A m \in 1..(j - 1) :
         ~FracLess(data.f[j], data.f[m])
    /\ \A j \in 0..(resolution - 1) :
         /\ SameEntry(Vertex(j),
                      IF j = 0 THEN Rotated(op.arg, 0)
                      ELSE VAdd(Vertex(j - 1), Rotated(op.arg, j)))
         /\ SameEntry(Vertex(j), RotatedSum(op.arg, j))

\* C17: a chain of at least two harmonics was drawn at a counter other than
\* 0, and the rotation moved the second vertex
C17_ChainDrawn ==
  /\ op.name = "Circles.update_plots"
  /\ op.exc = "none"
  /\ op.arg # 0
  /\ resolution >= 2
  /\ Vertex(1).d # 0
  /\ ~SameEntry(Vertex(1), Vertex(0))
  /\ ~SameEntry(Rotated(op.arg, 1), Rotated(0, 1))

\* C18: after update_plots(i) has returned, every buffer entry from the end
\* of the last active harmonic's block (index resolution*(P + 1) - 1) to the
\* end of the buffer equals the last computed chain vertex, vertex
\* resolution-1, and get_end_point() returns that terminal vertex.
C18_TailIsLastVertex ==
  (op.name = "Circles.update_plots" /\ op.exc = "none") =>
    /\ resolution >= 1
    /\ resolution * (PtsPerCircle + 1) <= Len(circles)
    /\ \A q \in (resolution * (PtsPerCircle + 1))..Len(circles) :
         SameEntry(circles[q], Vertex(resolution - 1))
    /\ SameEntry(get_end_point(circles), Vertex(resolution - 1))

\* C18: the chain was cut short of the buffer's capacity and its terminal
\* vertex is a number other than its first vertex
C18_FrozenTail ==
  /\ op.name = "Circles.update_plots"
  /\ op.exc = "none"
  /\ resolution >= 2
  /\ resolution < Capacity
  /\ get_end_point(circles).d # 0
  /\ ~SameEntry(get_end_point(circles), Vertex(0))

\* C19: phase advancement is independent of elapsed time: whatever delta_t a
\* tick hands to the update hook, the rotation counter, the chain buffer, the
\* guide line and the two displayed waveform arrays after the tick are the
\* same, so two runs of the same operations with different delta_t values
\* agree after every tick.
C19_TickIgnoresElapsedTime ==
  [][op'.name = "update" =>
       \A dt \in Elapsed \cup {InitialDeltaT} :
         \E other \in {Animation_update([Self EXCEPT !.delta_t = dt], dt)} :
           /\ op'.exc = other.exc
           /\ counts' = other.s.counts
           /\ circles' = other.s.circles
           /\ v_line' = other.s.v_line
           /\ x' = other.s.x
           /\ x2' = other.s.x2]_vars

\* C19: a tick that moved the counter was handed an elapsed time other than
\* the first tick's
C19_SlowFrame ==
  /\ op.name = "update"
  /\ op.exc = "none"
  /\ op.delta_t # InitialDeltaT
  /\ increment # 0
  /\ get_end_point(circles).z # ZZero

\* C20: within every tick (Animator._make_frame) the update hook is invoked
\* exactly once and completes before the list of drawables is handed back:
\* the object after the tick is the one a single update(self._delta_t)
\* leaves, and the drawables handed back show that recomputed state; when the
\* hook raises, nothing is handed back.
C20_RecomputeBeforeRedraw ==
  [][op'.name = "update" =>
       \E hook \in {Animation_update(Self, delta_t)} :
         /\ op'.calls = 1
         /\ op'.exc = hook.exc
         /\ counts' = hook.s.counts
         /\ circles' = hook.s.circles
         /\ v_line' = hook.s.v_line
         /\ x' = hook.s.x
         /\ x2' = hook.s.x2
         /\ op'.plots = IF hook.exc = "none" THEN Plots(hook.s) ELSE <<>>
         /\ (hook.exc = "none" /\ Plots(hook.s) # Plots(Self)) =>
              op'.plots # Plots(Self)]_vars

\* C20: a tick handed back drawables that its update had changed: the
\* counter moved by the increment and the buffer shows the new chain
C20_FrameHandedBack ==
  /\ op.name = "update"
  /\ op.exc = "none"
  /\ op.calls = 1
  /\ op.plots = Plots(Self)
  /\ increment # 0
  /\ last_t > 0
  /\ \E q \in 1..Len(circles) : circles[q].z # ZZero

\* the drawables FourierAnimation.update sets the data of
Mutated ==
  {"circles._plot", "v_line", "function_plot", "circle_function_plot"}

\* C21: once animation_loop has been called, every drawable that
\* FourierAnimation.update mutates (the circles line, the guide line v_line,
\* function_plot and circle_function_plot) is a member of the redraw set
\* _plots on every tick, and so is among what the tick hands back.
C21_MutatedAreRedrawn ==
  /\ main_animation # "None" => \A name \in Mutated : Member(name, plots)
  /\ (op.name = "update" /\ op.exc = "none") =>
       /\ main_animation # "None"
       /\ Len(op.plots) = Len(plots)
       /\ \A name \in Mutated :
            \E k \in 1..Len(plots) :
               plots[k] = name /\ op.plots[k] = Shown(Self, name)

\* C21: a tick after animation_loop moved the chain and handed the
\* drawables back
C21_TickAfterLoop ==
  /\ op.name = "update"
  /\ op.exc = "none"
  /\ main_animation = "FuncAnimation"
  /\ Len(op.plots) > 1
  /\ counts # -2
  /\ steps >= 2

\* C22: when the sampled signal is out of bounds, VerticalRescaler maps it
\* affinely so that the minimum of the result is lo and its maximum is hi
\* exactly, and the order of the samples is preserved (y1 <= y2 gives
\* rescaled y1 <= rescaled y2).
C22_RescaledToLimits ==
  (Sampled /\ ~in_bounds(data.rescale)) =>
    \E y \in {Call(data.function, data.t, eval_args).y} :
      /\ data.x.den > 0
      /\ Len(data.x.num) = Len(y)
      /\ SeqMin(data.x.num, Len(y)) = data.y_limits[1] * data.x.den
      /\ SeqMax(data.x.num, Len(y)) = data.y_limits[2] * data.x.den
      /\ \A j, k \in 1..Len(y) :
           y[j] <= y[k] => data.x.num[j] <= data.x.num[k]

\* non-zero amplitudes 1/d, down to one thousandth
SmallAmplitudes == {Val(ZOne, d) : d \in {1, 2, 10, 1000}}

\* C23: in _draw_circle a harmonic whose squared magnitude is below the
\* epsilon (the plot's y-extent divided by 10) has its circle collapsed to one
\* point, all P circle points being centre + amplitude; and for the epsilon
\* the constructor computes there are non-zero amplitudes that take this
\* collapse branch.
C23_CollapseBranchTaken ==
  /\ \E amp \in SmallAmplitudes : amp.z # ZZero /\ BelowEpsilon(amp)
  /\ (op.name = "Circles.update_plots" /\ op.exc = "none") =>
       \A j \in 1..(resolution - 1) :
         BelowEpsilon(Val(data.a.num[j + 1], data.a.den)) =>
           \A m \in 1..PtsPerCircle :
             SameEntry(circles[j * (PtsPerCircle + 1) + 1 + m], Vertex(j))

\* ------------------------------------------------------------------------
\* functions.py: multiplies_var and the default values, on expression trees.
\* A tree is what parse_expr makes of a text: a node has a kind, a name (of a
\* symbol or an applied function), a value (of a number) and its args.
\* ------------------------------------------------------------------------
Symbol(name) == [kind |-> "Symbol", name |-> name, value |-> 0, args |-> <<>>]
Number(value) ==
  [kind |-> "Number", name |-> "", value |-> value, args |-> <<>>]
Mul(args) == [kind |-> "Mul", name |-> "", value |-> 0, args |-> args]
Add(args) == [kind |-> "Add", name |-> "", value |-> 0, args |-> args]
Pow(base, exponent) ==
  [kind |-> "Pow", name |-> "", value |-> 0, args |-> <<base, exponent>>]
Apply(name, args) ==
  [kind |-> "Function", name |-> name, value |-> 0, args |-> args]

\* the elements of a sequence
Range(seq) == {seq[k] : k \in 1..Len(seq)}

\* sympy's matcher of has(): a product or a sum is found in a node of its
\* class that has all its args, anything else in a node equal to it
Matches(node, pattern) ==
  IF pattern.kind \in {"Mul", "Add"}
  THEN node.kind = pattern.kind /\ Range(pattern.args) \subseteq Range(node.args)
  ELSE node = pattern

RECURSIVE Has(_, _)
\* expr.has(pattern): some node of the tree matches
Has(expr, pattern) ==
  \/ Matches(expr, pattern)
  \/ \E k \in 1..Len(expr.args) : Has(expr.args[k], pattern)

\* the factors of p as a product
Factors(p) == IF p.kind = "Mul" THEN p.args ELSE <<p>>
\* base and exponent of a factor
Base(f) == IF f.kind = "Pow" THEN f.args[1] ELSE f
Exponent(f) == IF f.kind = "Pow" THEN f.args[2] ELSE Number(1)
\* the sum of two exponents
ExponentSum(e1, e2) ==
  IF e1.kind = "Number" /\ e2.kind = "Number"
  THEN Number(e1.value + e2.value) ELSE Add(<<e1, e2>>)

\* arg1*arg2 as sympy builds it: the factors of both in one product, powers
\* of one base combined
Times(p, q) ==
  LET fp == Factors(p)
      fq == Factors(q)
      joined ==
        [k \in 1..Len(fp) |->
           IF \E m \in 1..Len(fq) : Base(fq[m]) = Base(fp[k])
           THEN LET m == CHOOSE m \in 1..Len(fq) : Base(fq[m]) = Base(fp[k])
                IN Pow(Base(fp[k]),
                       ExponentSum(Exponent(fp[k]), Exponent(fq[m])))
           ELSE fp[k]]
      rest == SelectSeq(fq, LAMBDA f :
                              \A k \in 1..Len(fp) : Base(fp[k]) # Base(f))
      all == joined \o rest
  IN IF Len(all) = 1 THEN all[1] ELSE Mul(all)

RECURSIVE multiplies_var(_, _, _)
\* multiplies_var(main_var, arb_var, expr)
multiplies_var(main_var, arb_var, expr) ==
  LET arg_list == {i \in 1..Len(expr.args) : Has(expr.args[i], main_var)}
  IN \/ \E i \in arg_list : \E j \in 1..Len(expr.args) :
          /\ \/ expr.args[j] = arb_var
             \/ expr.args[j].kind = "Pow" /\ Has(expr.args[j], arb_var)
          /\ Has(expr, Times(expr.args[i], expr.args[j]))
     \/ \E i \in arg_list :
          /\ expr.args[i] # main_var
          /\ multiplies_var(main_var, arb_var, expr.args[i])

RECURSIVE free_symbols(_)
\* expr.free_symbols: the names of the symbols of the tree
free_symbols(expr) ==
  IF expr.kind = "Symbol" THEN {expr.name}
  ELSE UNION {free_symbols(expr.args[k]) : k \in 1..Len(expr.args)}

\* FunctionRtoR(text, t).get_default_values() for the tree of the text: the
\* dict, as a function of the parameters' names (empty when the constructor
\* raises VariableNotFoundError)
default_values(expr) ==
  IF "t" \notin free_symbols(expr) THEN <<>>
  ELSE [s \in free_symbols(expr) \ {"t"} |->
          IF multiplies_var(Symbol("t"), Symbol(s), expr) THEN 1 ELSE 0]

\* the trees of the texts a*sin(10*k*(t - phi)) and sign(sin(k*t)) + c
ExprInit ==
  Mul(<<Symbol("a"),
        Apply("sin", <<Mul(<<Number(10), Symbol("k"),
                             Add(<<Symbol("t"),
                                   Mul(<<Number(-1), Symbol("phi")>>)>>)>>)>>)>>)
ExprShift ==
  Add(<<Symbol("c"),
        Apply("sign", <<Apply("sin", <<Mul(<<Symbol("k"), Symbol("t")>>)>>)>>)>>)

\* the factors a caller writes before a sub-expression: none, a parameter,
\* a power of it, a power to it, a sum with it
Coefficients ==
  {Number(1), Symbol("a"), Symbol("k"), Pow(Symbol("a"), Number(2)),
   Pow(Number(2), Symbol("a")),
   Add(<<Pow(Symbol("a"), Number(2)), Symbol("k")>>)}
\* the terms a caller adds: none, a parameter
Offsets == {Number(0), Symbol("c"), Symbol("a")}
\* the product of a coefficient and a sub-expression
Scaled(p, e) == IF p = Number(1) THEN e ELSE Mul(<<p, e>>)
\* the trees of the texts p*sinh(q*t) + r, a*sinh(k*t) + c among them
Expressions ==
  {ExprInit, ExprShift} \cup
  {LET body == Scaled(p, Apply("sinh", <<Scaled(q, Symbol("t"))>>))
   IN IF r = Number(0) THEN body ELSE Add(<<r, body>>)
     : p \in Coefficients, q \in Coefficients, r \in Offsets}

\* FunctionRtoR(text, abc.t).get_default_values() on a function object of
\* the caller's own
GetDefaultValues ==
  /\ \E expr \in Expressions :
       /\ op' = [name |-> "get_default_values", exc |-> "none", arg |-> expr]
       /\ ret' = default_values(expr)
  /\ UNCHANGED <<data, resolution, circles, counts, increment, function,
                 function_display, v_line, x, x2, rescale, delta_t, last_t,
                 plots, main_animation, sliders, setting_sliders, slider_box,
                 eval_args, last_params>>

NextFunctions == Step /\ GetDefaultValues

SpecFunctions == Init /\ [][NextFunctions]_vars

RECURSIVE Multiplies(_, _, _)
\* arb_var, itself or as the base of a power, is a factor of a product that
\* has another factor containing main_var, somewhere in the tree
Multiplies(main_var, arb_var, expr) ==
  \/ /\ expr.kind = "Mul"
     /\ \E i, j \in 1..Len(expr.args) :
          /\ i # j
          /\ Has(expr.args[i], main_var)
          /\ \/ expr.args[j] = arb_var
             \/ expr.args[j].kind = "Pow" /\ expr.args[j].args[1] = arb_var
  \/ \E k \in 1..Len(expr.args) : Multiplies(main_var, arb_var, expr.args[k])

\* C24: a parameter's default value is 1.0 exactly when it multiplies
\* (directly or as the base of a power) a sub-expression containing the
\* independent variable somewhere in the expression tree, searched
\* recursively, and 0.0 otherwise; in a*sinh(k*x) + c the defaults are
\* a = 1, k = 1, c = 0.
C24_DefaultIsOneIffMultiplies ==
  op.name = "get_default_values" =>
    \A s \in DOMAIN ret :
      ret[s] = IF Multiplies(Symbol("t"), Symbol(s), op.arg) THEN 1 ELSE 0

\* C25: after any sequence of ticks, set_speed, set_function, set_params and
\* set_number_of_circles calls on FourierAnimation, the displayed array x is
\* the samples last computed from the current function (rescaled as _set_x
\* rescales them), cyclically shifted by the rotation counter counts, and x2
\* is the inverse transform of get_amplitudes() shifted by the same counts.
C25_WaveformsShiftedByCounter ==
  \E r \in {Call(function, AnimationT, last_params)},
     g \in {get_amplitudes(data, resolution)} :
    /\ r.exc = "none"
    /\ \E rs \in {set_scale_values(VerticalRescaler, r.y, <<-1, 1>>)} :
         \E y \in {IF in_bounds(rs) THEN Samples(r.y, 1)
                   ELSE Rescale(rs, r.y)} :
            x = [num |-> Roll(y.num, counts), den |-> y.den]
    /\ g.exc = "none"
    /\ x2 = Roll(Irfft(g.amps), counts)

\* two reals [r, d] are the same number, or both are nan
SameReal(p, q) ==
  \/ p.d = 0 /\ q.d = 0
  \/ /\ p.d # 0 /\ q.d # 0
     /\ p.r[1] * q.d = q.r[1] * p.d
     /\ p.r[2] * q.d = q.r[2] * p.d

\* C26: after every tick and for every resolution r in 1..M, the real part
\* of the terminal chain vertex (get_end_point, the height of the guide line)
\* equals element 0 of the displayed truncated reconstruction x2 (the inverse
\* real transform of get_amplitudes(), shifted by the counter).
C26_GuideLineMeetsCurve ==
  (/\ op.name = "update"
   /\ op.exc = "none"
   /\ 1 <= resolution
   /\ resolution <= M) =>
    \E end_point \in {get_end_point(circles)} :
      /\ SameReal(v_line.y, [r |-> ZRe2(end_point.z), d |-> 2 * end_point.d])
      /\ SameReal(v_line.y, x2[1])

\* C27: in every reachable state the vertex/circle buffer is long enough for
\* the accepted resolution and the coefficient arrays:
\* resolution*(P + 1) <= len(_circles), resolution <= len(amplitudes) and
\* resolution <= len(frequencies), so update_plots never indexes outside the
\* buffer or the coefficient arrays after any sequence of
\* set_number_of_points, set_number_of_circles and update_plots calls.
C27_BufferLongEnough ==
  /\ resolution * (PtsPerCircle + 1) <= Len(circles)
  /\ resolution <= Len(data.a.num)
  /\ resolution <= Len(data.f)
  /\ op.name = "Circles.update_plots" => op.exc = "none"

\* C28: Animator._add_plots is idempotent and duplicate-free: after any
\* number of animation_loop calls each drawable attribute of the animator
\* appears in _plots exactly once, every auto-discovered Text object is
\* placed after every auto-discovered non-Text drawable, and a further
\* animation_loop call leaves _plots as it was.
C28_AddPlotsIdempotent ==
  /\ [](main_animation # "None" =>
          /\ \A k \in 1..Len(Attributes) :
               Cardinality({i \in 1..Len(plots) :
                              plots[i] = Attributes[k].name}) = 1
          /\ \A k, m \in 1..Len(Attributes) :
               (Attributes[k].kind = "Text" /\ Attributes[m].kind # "Text") =>
                 \A i, j \in 1..Len(plots) :
                   (plots[i] = Attributes[k].name
                    /\ plots[j] = Attributes[m].name) => j < i)
  /\ [][(op'.name = "animation_loop" /\ main_animation # "None") =>
          plots' = plots]_vars

\* C28: animation_loop was called again, on an animator whose drawables
\* were all registered
C28_LoopCalledAgain ==
  /\ op.name = "animation_loop"
  /\ Len(op.arg) = Len(Attributes) + 1
  /\ main_animation = "FuncAnimation"

\* C29: every set_params call the window makes is made while
\* _setting_sliders is false and passes the values of sliders whose ids
\* are exactly the parameters of the animation's current function, in the
\* function's parameter order; and a set_function_from_text that built
\* the sliders calls set_params exactly once
C29_SetParamsMatchesParameters ==
  op.name \in {"set_function_from_text", "notify_change"} =>
    /\ \A i \in 1..Len(op.calls) :
         /\ ~op.calls[i].setting
         /\ Len(op.calls[i].args) = Len(op.calls[i].parameters)
         /\ op.calls[i].ids = op.calls[i].parameters
    /\ op.built => Len(op.calls) = 1

====
